---- MODULE Spec2Model ----
(***************************************************************************)
(* A model of the LineClamp controller (tvanc/lineclamp): the clamp        *)
(* configuration, the snapshot of the element's words, the element's text  *)
(* and inline font size, the watch subscription, and the operations        *)
(* apply(), hardClamp(), softClamp(), shouldClamp(), watch(), unwatch()    *)
(* together with the boundary search findBoundary().                       *)
(*                                                                         *)
(* The host layout engine is modelled as a monospace greedy word wrap      *)
(* (white-space: normal, overflow-wrap: anywhere): a character of font     *)
(* size s is s pixels wide and a line is s pixels high.                    *)
(***************************************************************************)
EXTENDS Integers, Sequences, FiniteSets, TLC

(* ---------------------------------------------------------------------- *)
(* Bounds of the model                                                     *)
(* ---------------------------------------------------------------------- *)

\* Longest original text, in characters.
MaxLen == 5

\* Largest value of the minFontSize / maxFontSize options, in pixels.
MaxFontSize == 3

\* Largest value of the maxLines option.
MaxLinesOpt == 2

\* Largest value of the maxHeight option, in pixels.
MaxHeightOpt == 4

\* Inner width of the element, in pixels.
ElementWidth == 6

\* The font size the style sheet gives the element, in pixels.
CssFontSize == 3

(* ---------------------------------------------------------------------- *)
(* Values                                                                  *)
(* ---------------------------------------------------------------------- *)

\* `undefined` for the numeric options.
Undefined == -1

\* element.style.fontSize === "" (no inline font size).
NoInlineSize == 0

Letter == "a"
Space == " "
Chars == {Letter, Space}

\* The ellipsis option ("…" by default): one non-blank character.
ellipsis == <<".">>

VARIABLES
    originalWords,        \* this.originalWords: the words with their trailing blanks
    maxLines,             \* this.maxLines (Undefined or a number)
    maxHeight,            \* this.maxHeight (Undefined or a number)
    useSoftClamp,         \* this.useSoftClamp
    hardClampAsFallback,  \* this.hardClampAsFallback
    minFontSize,          \* this.minFontSize
    maxFontSize,          \* this.maxFontSize
    textContent,          \* element.textContent
    fontSize,             \* element.style.fontSize in px, NoInlineSize for ""
    hidden,               \* the element is not rendered (display: none, detached)
    watching,             \* this._watching
    resizeListener,       \* updateHandler is registered for window "resize"
    observing,            \* this.observer observes the element
    lastOp,               \* the public operation called last
    status,               \* how it ended: "ok", "error" (it threw), "hang" (it never returned)
    events,               \* the events dispatched on the element during it
    result,               \* the value shouldClamp() returned, when lastOp = "shouldClamp"
    pre,                  \* the state the operation was called in
    strict,               \* this.strict (the revision with clampSoon())
    calls,                \* the clamping methods entered during the last step
    observedWrite,        \* the last step wrote to the element while this.observer observed it
    passes,               \* the clamp passes (apply() / clamp()) the last step ran
    pendingRecords,       \* this.observer holds mutation records not yet delivered
    pendingFrames,        \* the requestAnimationFrame callbacks clampSoon() has scheduled
    owed,                 \* the element changed while watching and no pass has followed yet
    args                  \* what a function studied on its own was applied to

vars == <<originalWords, maxLines, maxHeight, useSoftClamp, hardClampAsFallback,
          minFontSize, maxFontSize, textContent, fontSize, hidden, watching,
          resizeListener, observing, lastOp, status, events, result, pre,
          strict, calls, observedWrite, passes, pendingRecords, pendingFrames,
          owed, args>>

config == <<originalWords, maxLines, maxHeight, useSoftClamp,
            hardClampAsFallback, minFontSize, maxFontSize, strict>>

\* What the browser holds for the controller: undelivered mutation records
\* and scheduled animation-frame callbacks.
queues == <<pendingRecords, pendingFrames>>

(* ---------------------------------------------------------------------- *)
(* Strings                                                                 *)
(* ---------------------------------------------------------------------- *)

\* String.prototype.slice(0, n) and Array.prototype.slice(0, n), n >= 0.
Slice(s, n) == SubSeq(s, 1, IF n < Len(s) THEN n ELSE Len(s))

\* String.prototype.slice(0, -1).
DropLast(s) == IF Len(s) = 0 THEN <<>> ELSE SubSeq(s, 1, Len(s) - 1)

RECURSIVE Join(_, _)
\* Array.prototype.join(sep) on an array of strings.
Join(ws, sep) ==
    IF Len(ws) = 0 THEN <<>>
    ELSE IF Len(ws) = 1 THEN ws[1]
    ELSE ws[1] \o sep \o Join(Tail(ws), sep)

RECURSIVE Match(_, _, _)
\* textContent.match(/\S+\s*/g) || []: cur is the word being read, its
\* trailing blanks included; blanks before the first word match nothing.
Match(s, cur, acc) ==
    IF Len(s) = 0 THEN (IF Len(cur) = 0 THEN acc ELSE Append(acc, cur))
    ELSE LET c == Head(s) IN
         IF c = Space
         THEN (IF Len(cur) = 0 THEN Match(Tail(s), cur, acc)
               ELSE Match(Tail(s), Append(cur, c), acc))
         ELSE (IF Len(cur) > 0 /\ cur[Len(cur)] = Space
               THEN Match(Tail(s), <<c>>, Append(acc, cur))
               ELSE Match(Tail(s), Append(cur, c), acc))

Words(s) == Match(s, <<>>, <<>>)

(* ---------------------------------------------------------------------- *)
(* Host layout                                                             *)
(* ---------------------------------------------------------------------- *)

RECURSIVE WordLengths(_, _, _)
\* The lengths of the maximal runs of non-blank characters of s: what is
\* left of the text once white space is collapsed.
WordLengths(s, cur, acc) ==
    IF Len(s) = 0 THEN (IF cur = 0 THEN acc ELSE Append(acc, cur))
    ELSE IF Head(s) = Space
         THEN WordLengths(Tail(s), 0, IF cur = 0 THEN acc ELSE Append(acc, cur))
         ELSE WordLengths(Tail(s), cur + 1, acc)

RECURSIVE Letters(_)
\* The non-blank characters of s, in order.
Letters(s) ==
    IF Len(s) = 0 THEN <<>>
    ELSE IF Head(s) = Space THEN Letters(Tail(s))
    ELSE <<Head(s)>> \o Letters(Tail(s))

\* What the reader sees of s (white-space: normal): its non-blank
\* characters and the way they are grouped into words.
Visible(s) == [letters |-> Letters(s), lengths |-> WordLengths(s, 0, <<>>)]

\* Characters per line at font size px.
LineCapacity(px) == IF ElementWidth \div px < 1 THEN 1 ELSE ElementWidth \div px

RECURSIVE Wrap(_, _, _, _)
\* Greedy line filling: used is the number of characters on the current
\* line (0: no line begun), lines the number of lines begun so far.  A
\* word that does not fit the rest of the line starts the next line; a
\* word longer than a whole line is broken across lines.
Wrap(lens, cap, used, lines) ==
    IF Len(lens) = 0 THEN lines
    ELSE LET w == Head(lens) IN
         IF used > 0 /\ used + 1 + w <= cap
         THEN Wrap(Tail(lens), cap, used + 1 + w, lines)
         ELSE LET full == (w - 1) \div cap
              IN Wrap(Tail(lens), cap, w - full * cap, lines + full + 1)

\* The number of lines text is rendered on at font size px.
RenderedLines(text, px) == Wrap(WordLengths(text, 0, <<>>), LineCapacity(px), 0, 0)

\* getComputedStyle(element).fontSize, in px.
ComputedFontSize(inline) == IF inline = NoInlineSize THEN CssFontSize ELSE inline

\* offsetHeight of the element (or of its clone) holding `lines` lines.
OffsetHeight(lines, inline) ==
    IF hidden THEN 0 ELSE lines * ComputedFontSize(inline)

\* element.offsetHeight, as apply() reads it.
ElementOffsetHeight ==
    OffsetHeight(RenderedLines(textContent, ComputedFontSize(fontSize)), fontSize)

(* ---------------------------------------------------------------------- *)
(* calculateTextMetrics() and shouldClamp()                                *)
(* ---------------------------------------------------------------------- *)

\* A calculateTextMetrics() that takes the height of a further line from the
\* empty clone instead of from the clone holding one line.
textMetricsFromEmpty(naturalHeight, naturalHeightWithoutText, naturalHeightWithOneLine, heightWithTwoLines) ==
    [textHeight |-> naturalHeight - naturalHeightWithoutText,
     naturalHeightWithOneLine |-> naturalHeightWithOneLine,
     firstLineHeight |-> naturalHeightWithOneLine - naturalHeightWithoutText,
     additionalLineHeight |-> heightWithTwoLines - naturalHeightWithoutText,
     lineCountIsNaN |-> heightWithTwoLines - naturalHeightWithoutText = 0,
     lineCount |-> IF heightWithTwoLines - naturalHeightWithoutText = 0 THEN 0
                   ELSE 1 + (naturalHeight - naturalHeightWithOneLine)
                              \div (heightWithTwoLines - naturalHeightWithoutText)]

\* The arithmetic of calculateTextMetrics() on the four offsetHeight values
\* it reads from the clone: as cloned, emptied, holding one line, holding
\* two lines.  lineCount is NaN (0 / 0) when a further line adds no height.
textMetrics(naturalHeight, naturalHeightWithoutText, naturalHeightWithOneLine, heightWithTwoLines) ==
    [textHeight |-> naturalHeight - naturalHeightWithoutText,
     naturalHeightWithOneLine |-> naturalHeightWithOneLine,
     firstLineHeight |-> naturalHeightWithOneLine - naturalHeightWithoutText,
     additionalLineHeight |-> heightWithTwoLines - naturalHeightWithOneLine,
     lineCountIsNaN |-> heightWithTwoLines - naturalHeightWithOneLine = 0,
     lineCount |-> IF heightWithTwoLines - naturalHeightWithOneLine = 0 THEN 0
                   ELSE 1 + (naturalHeight - naturalHeightWithOneLine)
                              \div (heightWithTwoLines - naturalHeightWithOneLine)]

\* calculateTextMetrics() for an element holding text at inline size inline.
calculateTextMetrics(text, inline) ==
    textMetrics(OffsetHeight(RenderedLines(text, ComputedFontSize(inline)), inline),
                OffsetHeight(0, inline),
                OffsetHeight(1, inline),
                OffsetHeight(2, inline))

\* lineCount > this.maxLines; a comparison with NaN is false.
ExceedsMaxLines(m) == ~m.lineCountIsNaN /\ m.lineCount > maxLines

\* The comparisons of shouldClamp() on the metrics m: threw tells that it
\* raised the configuration error, value is what it returned otherwise.
shouldClampGiven(m) ==
    IF maxHeight # Undefined /\ maxLines # Undefined
    THEN [threw |-> FALSE, value |-> m.textHeight > maxHeight \/ ExceedsMaxLines(m)]
    ELSE IF maxHeight # Undefined
    THEN [threw |-> FALSE, value |-> m.textHeight > maxHeight]
    ELSE IF maxLines # Undefined
    THEN [threw |-> FALSE, value |-> ExceedsMaxLines(m)]
    ELSE [threw |-> TRUE, value |-> FALSE]

\* shouldClamp() for an element holding text at inline size inline.
shouldClamp(text, inline) == shouldClampGiven(calculateTextMetrics(text, inline))

(* ---------------------------------------------------------------------- *)
(* findBoundary()                                                          *)
(* ---------------------------------------------------------------------- *)

\* Math.round((min + max) / 2) for integers.
RoundHalf(min, max) == (min + max + 1) \div 2

RECURSIVE findBoundaryLoop(_, _, _, _, _)
\* The while loop of findBoundary.  test maps each value of the range to
\* what the test callback yields there (a shouldClamp() outcome); tests
\* counts the calls made so far.  done tells that the completion callback
\* was invoked, with (val, min, max).
findBoundaryLoop(min, max, cursor, test, tests) ==
    IF max > min
    THEN LET r == test[cursor] IN
         IF r.threw
         THEN [threw |-> TRUE, done |-> FALSE, val |-> cursor, min |-> min,
               max |-> max, tests |-> tests + 1, last |-> FALSE]
         ELSE LET newMax == IF r.value THEN cursor ELSE max
                  newMin == IF r.value THEN min ELSE cursor
              IN IF newMax - newMin = 1
                 THEN [threw |-> FALSE, done |-> TRUE, val |-> cursor,
                       min |-> newMin, max |-> newMax, tests |-> tests + 1,
                       last |-> r.value]
                 ELSE findBoundaryLoop(newMin, newMax, RoundHalf(newMin, newMax),
                                       test, tests + 1)
    ELSE [threw |-> FALSE, done |-> FALSE, val |-> cursor, min |-> min,
          max |-> max, tests |-> tests, last |-> FALSE]

\* A search that tests the lower end of the range first.
findBoundaryFromMin(min, max, test) == findBoundaryLoop(min, max, min, test, 0)

\* findBoundary(min, max, test, done): the cursor starts on max.
findBoundary(min, max, test) == findBoundaryLoop(min, max, max, test, 0)

(* ---------------------------------------------------------------------- *)
(* Events                                                                  *)
(* ---------------------------------------------------------------------- *)

SoftClampEvent == "lineclamp.softclamp"
HardClampEvent == "lineclamp.hardclamp"
ClampEvent == "lineclamp.clamp"

\* emit(instance, type): the event is dispatched on the element.
emit(dispatched, type) == Append(dispatched, type)

\* What a clamping method leaves behind: the element's text and inline font
\* size, the events dispatched so far, how the method ended, the clamping
\* methods entered and whether the element was written to.
Outcome(text, inline, dispatched, ending) ==
    [text |-> text, inline |-> inline, events |-> dispatched, status |-> ending,
     calls |-> {}, wrote |-> FALSE]

\* The method was entered (what a spy on it records).
Called(out, method) == [out EXCEPT !.calls = @ \cup {method}]

\* this.element.textContent = ... / this.element.style.fontSize = ...
Wrote(out) == [out EXCEPT !.wrote = TRUE]

(* ---------------------------------------------------------------------- *)
(* hardClamp()                                                             *)
(* ---------------------------------------------------------------------- *)

\* this.originalWords.slice(0, val).join(" ")
FirstWords(val) == Join(Slice(originalWords, val), <<Space>>)

RECURSIVE trimLetters(_, _)
\* The do/while loop of hardClamp's completion callback.  With currentText
\* already empty an iteration repeats the one before it: the loop never ends.
trimLetters(currentText, inline) ==
    LET trimmed == DropLast(currentText)
        shown == trimmed \o ellipsis
        r == shouldClamp(shown, inline)
    IN IF r.threw THEN [text |-> shown, status |-> "error"]
       ELSE IF ~r.value THEN [text |-> shown, status |-> "ok"]
       ELSE IF Len(currentText) = 0 THEN [text |-> shown, status |-> "hang"]
       ELSE trimLetters(trimmed, inline)

\* The text the letter trimming starts from: done(val, min, max).
trimStart(val, min, max) ==
    IF val > min THEN FirstWords(max) ELSE FirstWords(val)

\* A completion callback that dispatches lineclamp.clamp alone.
hardClampDoneSilent(inline, dispatched, trim) ==
    IF trim.status # "ok"
    THEN Wrote(Outcome(trim.text, inline, dispatched, trim.status))
    ELSE Wrote(Outcome(trim.text, inline, emit(dispatched, ClampEvent), "ok"))

\* The completion callback of hardClamp's search once its do/while loop,
\* trim, is over: the events are dispatched when the loop ended.
hardClampDone(inline, dispatched, trim) ==
    IF trim.status # "ok"
    THEN Wrote(Outcome(trim.text, inline, dispatched, trim.status))
    ELSE Wrote(Outcome(trim.text, inline,
                       emit(emit(dispatched, HardClampEvent), ClampEvent), "ok"))

\* hardClamp(skipCheck) given check, what shouldClamp() yields on entry, and
\* fb, the boundary search over the number of words.
hardClampSearch(skipCheck, text, inline, dispatched, check, fb) ==
    IF ~skipCheck /\ check.threw THEN Outcome(text, inline, dispatched, "error")
    ELSE IF ~skipCheck /\ ~check.value THEN Outcome(text, inline, dispatched, "ok")
    ELSE IF fb.tests = 0 THEN Outcome(text, inline, dispatched, "ok")
    ELSE IF fb.threw
    THEN Wrote(Outcome(FirstWords(fb.val), inline, dispatched, "error"))
    ELSE IF ~fb.done
    THEN Wrote(Outcome(FirstWords(fb.val), inline, dispatched, "ok"))
    ELSE hardClampDone(inline, dispatched,
                       trimLetters(trimStart(fb.val, fb.min, fb.max), inline))

\* hardClamp(skipCheck) on an element holding text at inline size inline,
\* dispatched being the events of the enclosing call so far.
hardClamp(skipCheck, text, inline, dispatched) ==
    Called(hardClampSearch(skipCheck, text, inline, dispatched,
                           shouldClamp(text, inline),
                           findBoundary(1, Len(originalWords),
                                        [val \in 1..Len(originalWords) |->
                                           shouldClamp(FirstWords(val), inline)])),
           "hardClamp")

(* ---------------------------------------------------------------------- *)
(* softClamp()                                                             *)
(* ---------------------------------------------------------------------- *)

\* The comparison inverted: style.fontSize === startSize.
fontSizeSame(inline, startSize) ==
    ~(inline = NoInlineSize \/ inline # startSize)

\* style.fontSize !== startSize, startSize being a computed size in px.
fontSizeChanged(inline, startSize) ==
    inline = NoInlineSize \/ inline # startSize

\* A softClamp() that announces the soft clamp only once hardClamp() is back.
softClampFinishHardFirst(text, inline, changed, done) ==
    LET hard == hardClamp(FALSE, text, inline, <<>>)
    IN IF ~done /\ hardClampAsFallback
       THEN Outcome(hard.text, hard.inline,
                    IF changed THEN emit(hard.events, SoftClampEvent) ELSE hard.events,
                    hard.status)
       ELSE IF changed
       THEN Outcome(text, inline, emit(emit(<<>>, SoftClampEvent), ClampEvent), "ok")
       ELSE Outcome(text, inline, <<>>, "ok")

\* A softClamp() that falls back to hardClamp() whatever hardClampAsFallback.
softClampFinishAlwaysHard(text, inline, changed, done) ==
    LET dispatched == IF changed THEN emit(<<>>, SoftClampEvent) ELSE <<>>
    IN IF ~done
       THEN hardClamp(FALSE, text, inline, dispatched)
       ELSE IF changed
       THEN Outcome(text, inline, emit(dispatched, ClampEvent), "ok")
       ELSE Outcome(text, inline, dispatched, "ok")

\* softClamp() after its boundary search: the events and the fallback.
softClampFinish(text, inline, changed, done) ==
    LET dispatched == IF changed THEN emit(<<>>, SoftClampEvent) ELSE <<>>
    IN IF ~done /\ hardClampAsFallback
       THEN hardClamp(FALSE, text, inline, dispatched)
       ELSE IF changed
       THEN Outcome(text, inline, emit(dispatched, ClampEvent), "ok")
       ELSE Outcome(text, inline, dispatched, "ok")

\* A softClamp() whose completion callback moves to the passing bound
\* without calling shouldClamp() again there.
softClampSearchAssumed(text, startSize, test, fb) ==
    LET final == IF fb.val > fb.min THEN fb.min ELSE fb.val
        size == IF fb.tests = 0 THEN NoInlineSize
                ELSE IF fb.done THEN final ELSE fb.val
        done == fb.done /\ (fb.val > fb.min \/ ~fb.last)
    IN IF fb.threw THEN Outcome(text, fb.val, <<>>, "error")
       ELSE softClampFinish(text, size, fontSizeChanged(size, startSize), done)

\* softClamp() given startSize, the computed font size on entry, test, what
\* shouldClamp() yields at each size of the range, and fb, the boundary
\* search over the range.
softClampSearch(text, startSize, test, fb) ==
    LET \* the completion callback
        final == IF fb.val > fb.min THEN fb.min ELSE fb.val
        finalCheck == IF fb.val > fb.min THEN test[fb.min].value ELSE fb.last
        \* style.fontSize when the search is over
        size == IF fb.tests = 0 THEN NoInlineSize
                ELSE IF fb.done THEN final ELSE fb.val
        done == fb.done /\ ~finalCheck
    IN IF fb.threw THEN Outcome(text, fb.val, <<>>, "error")
       ELSE softClampFinish(text, size, fontSizeChanged(size, startSize), done)

\* The test callback of softClamp's search: shouldClamp() at each size.
softClampTest(text) == [val \in minFontSize..maxFontSize |-> shouldClamp(text, val)]

\* softClamp() on an element holding text at inline size inline;
\* style.fontSize = "" is written before the search.
softClamp(text, inline) ==
    Called(Wrote(softClampSearch(text, ComputedFontSize(inline), softClampTest(text),
                                 findBoundary(minFontSize, maxFontSize,
                                              softClampTest(text)))),
           "softClamp")

(* ---------------------------------------------------------------------- *)
(* watch(), unwatch(), apply()                                             *)
(* ---------------------------------------------------------------------- *)

Subscription(w, r, o) == [watching |-> w, resizeListener |-> r, observing |-> o]

\* A watch() that forgets this.observer.observe(...).
watchWithoutObserver(sub) ==
    IF ~sub.watching THEN Subscription(TRUE, TRUE, FALSE) ELSE sub

\* watch()
watch(sub) ==
    IF ~sub.watching THEN Subscription(TRUE, TRUE, TRUE) ELSE sub

\* An unwatch() that forgets this.observer.disconnect().
unwatchKeepsObserver(sub) == Subscription(FALSE, FALSE, sub.observing)

\* An unwatch() that forgets the resize listener.
unwatchKeepsListener(sub) == Subscription(FALSE, sub.resizeListener, FALSE)

\* unwatch()
unwatch(sub) == Subscription(FALSE, FALSE, FALSE)

\* An apply() without the offsetHeight guard.
elementAssumedRendered == TRUE

\* if (this.element.offsetHeight)
elementIsRendered == ElementOffsetHeight # 0

\* A clamping that starts from the text the element holds, without
\* restoring the original text first.
applyClampCurrentText ==
    IF useSoftClamp THEN softClamp(textContent, fontSize)
    ELSE hardClamp(FALSE, textContent, fontSize, <<>>)

\* The clamping of apply(): the original text is restored, then softClamp()
\* or hardClamp() runs.
applyClamp ==
    LET text == Join(originalWords, <<>>)
    IN IF useSoftClamp THEN softClamp(text, fontSize)
       ELSE hardClamp(TRUE, text, fontSize, <<>>)

\* An apply() that forgets this.unwatch() before it writes.
applyNotSuspended(sub) == sub

\* The subscription while apply() writes to the element: this.unwatch() first.
applySuspended(sub) == unwatch(sub)

\* The subscription apply() leaves: it resumes watching only when the
\* clamping returned.
applySubscription(sub, ending) ==
    IF ending = "ok" /\ sub.watching THEN watch(unwatch(sub)) ELSE unwatch(sub)

(* ---------------------------------------------------------------------- *)
(* The state machine                                                       *)
(* ---------------------------------------------------------------------- *)

Snapshot ==
    [textContent |-> textContent, fontSize |-> fontSize, hidden |-> hidden,
     watching |-> watching, resizeListener |-> resizeListener,
     observing |-> observing, events |-> events,
     applied |-> lastOp = "apply" /\ status = "ok"]

CurrentSubscription == Subscription(watching, resizeListener, observing)

Normalized(s) ==
    /\ Len(s) > 0 => s[1] # Space
    /\ \A i \in 1..(Len(s) - 1) : ~(s[i] = Space /\ s[i + 1] = Space)

\* The texts an element starts with: white space already collapsed.
Texts == {s \in UNION {[1..n -> Chars] : n \in 0..MaxLen} : Normalized(s)}

FontSizes == 1..MaxFontSize
LineOpts == {Undefined} \cup 1..MaxLinesOpt
HeightOpts == {Undefined} \cup 1..MaxHeightOpt

\* new LineClamp(element, options), the element being rendered.  The font
\* range is not inverted (an inverted range is searched like an empty one),
\* and without soft clamping the font options keep their defaults.
Init ==
    /\ textContent \in Texts
    /\ originalWords = Words(textContent)
    /\ maxLines \in LineOpts
    /\ maxHeight \in HeightOpts
    /\ useSoftClamp \in BOOLEAN
    /\ hardClampAsFallback \in BOOLEAN
    /\ minFontSize \in FontSizes
    /\ maxFontSize \in FontSizes
    /\ minFontSize <= maxFontSize
    /\ ~useSoftClamp =>
         hardClampAsFallback /\ minFontSize = 1 /\ maxFontSize = CssFontSize
    /\ fontSize = NoInlineSize
    /\ hidden = FALSE
    /\ watching = FALSE
    /\ resizeListener = FALSE
    /\ observing = FALSE
    /\ lastOp = "new"
    /\ status = "ok"
    /\ events = <<>>
    /\ result = FALSE
    /\ pre = Snapshot
    /\ strict = FALSE
    /\ calls = {}
    /\ observedWrite = FALSE
    /\ passes = 0
    /\ pendingRecords = FALSE
    /\ pendingFrames = 0
    /\ owed = FALSE
    /\ args = <<>>

Running == status # "hang"

\* What apply() leaves of a rendered element: out is what the clamping left,
\* during the subscription while it wrote, sub the subscription at the end.
\* The observer's disconnect() drops the queued records, and a write made
\* while it observes queues one.
ApplyRendered(out, during, sub) ==
    /\ textContent' = out.text
    /\ fontSize' = out.inline
    /\ events' = out.events
    /\ status' = out.status
    /\ calls' = out.calls
    /\ watching' = sub.watching
    /\ resizeListener' = sub.resizeListener
    /\ observing' = sub.observing
    /\ observedWrite' = during.observing
    /\ pendingRecords' = during.observing

\* One pass of apply(), entered by op with the mutation records `records`
\* still queued.
ApplyPass(op, records) ==
    /\ Running
    /\ lastOp' = op
    /\ pre' = Snapshot
    /\ result' = FALSE
    /\ passes' = 1
    /\ owed' = FALSE
    /\ IF elementIsRendered
       THEN ApplyRendered(applyClamp, applySuspended(CurrentSubscription),
                          applySubscription(CurrentSubscription, applyClamp.status))
       ELSE /\ events' = <<>>
            /\ status' = "ok"
            /\ calls' = {}
            /\ observedWrite' = FALSE
            /\ pendingRecords' = records
            /\ UNCHANGED <<textContent, fontSize, watching, resizeListener, observing>>
    /\ UNCHANGED <<config, args, hidden, pendingFrames>>

\* clamp.apply()
Apply == ApplyPass("apply", pendingRecords)

\* What every step that is no clamping leaves of the bookkeeping.
NoClamping ==
    /\ events' = <<>>
    /\ calls' = {}
    /\ observedWrite' = FALSE
    /\ passes' = 0

\* clamp.watch()
Watch ==
    /\ Running
    /\ lastOp' = "watch"
    /\ pre' = Snapshot
    /\ LET sub == watch(CurrentSubscription)
       IN /\ watching' = sub.watching
          /\ resizeListener' = sub.resizeListener
          /\ observing' = sub.observing
    /\ NoClamping
    /\ status' = "ok"
    /\ result' = FALSE
    /\ UNCHANGED <<config, args, textContent, fontSize, hidden, queues, owed>>

\* clamp.unwatch(): disconnect() drops the records not yet delivered.
Unwatch ==
    /\ Running
    /\ lastOp' = "unwatch"
    /\ pre' = Snapshot
    /\ LET sub == unwatch(CurrentSubscription)
       IN /\ watching' = sub.watching
          /\ resizeListener' = sub.resizeListener
          /\ observing' = sub.observing
          /\ pendingRecords' = (pendingRecords /\ sub.observing)
    /\ owed' = FALSE
    /\ NoClamping
    /\ status' = "ok"
    /\ result' = FALSE
    /\ UNCHANGED <<config, args, textContent, fontSize, hidden, pendingFrames>>

\* clamp.shouldClamp()
ShouldClamp ==
    /\ Running
    /\ lastOp' = "shouldClamp"
    /\ pre' = Snapshot
    /\ LET r == shouldClamp(textContent, fontSize)
       IN /\ status' = IF r.threw THEN "error" ELSE "ok"
          /\ result' = r.value
    /\ NoClamping
    /\ UNCHANGED <<config, args, textContent, fontSize, hidden, watching,
                   resizeListener, observing, queues, owed>>

\* The page hides the element (display: none) or shows it again.
SetHidden ==
    /\ Running
    /\ hidden' = ~hidden
    /\ lastOp' = "layout"
    /\ pre' = Snapshot
    /\ NoClamping
    /\ status' = "ok"
    /\ result' = FALSE
    /\ UNCHANGED <<config, args, textContent, fontSize, watching, resizeListener,
                   observing, queues, owed>>

Next == Apply \/ Watch \/ Unwatch \/ ShouldClamp \/ SetHidden

Spec == Init /\ [][Next]_vars

(* ---------------------------------------------------------------------- *)
(* Properties                                                              *)
(* ---------------------------------------------------------------------- *)

\* The number of lines the element's text is rendered on.
LineCountNow == RenderedLines(textContent, ComputedFontSize(fontSize))

\* The call that just ended was an apply() that returned, made on an
\* element of nonzero rendered height.
AppliedToRendered ==
    /\ lastOp = "apply"
    /\ status = "ok"
    /\ ~pre.hidden
    /\ RenderedLines(pre.textContent, ComputedFontSize(pre.fontSize)) > 0

\* C1: with hard clamping only and maxLines = N >= 1, after apply() has
\* returned on an element of nonzero height the text is rendered on at
\* most N lines, whatever the original text.
C1_HardClampLineCount ==
    (AppliedToRendered /\ ~useSoftClamp /\ maxLines # Undefined)
        => LineCountNow <= maxLines

\* The full original text, as apply() restores it.
OriginalText == Join(originalWords, <<>>)

\* The events of the last call that are of the given type, by position.
Positions(type) == {i \in 1..Len(events) : events[i] = type}

\* C2: with useSoftClamp and hardClampAsFallback, after apply() has returned
\* shouldClamp() is false: the full original text fits at a font size of
\* at least minFontSize, or hard clamping was applied as well.
C2_SoftClampFits ==
    (AppliedToRendered /\ useSoftClamp /\ hardClampAsFallback)
        => /\ ~shouldClamp(textContent, fontSize).value
           /\ \/ /\ Visible(textContent) = Visible(OriginalText)
                 /\ ComputedFontSize(fontSize) >= minFontSize
              \/ Positions(HardClampEvent) # {}

\* C3: when an apply() dispatches both lineclamp.softclamp and
\* lineclamp.hardclamp, every softclamp comes before every hardclamp, and a
\* lineclamp.clamp follows, after every hardclamp.
C3_EventOrder ==
    (lastOp = "apply" /\ Positions(SoftClampEvent) # {} /\ Positions(HardClampEvent) # {})
        => /\ \A i \in Positions(SoftClampEvent) :
                \A j \in Positions(HardClampEvent) : i < j
           /\ Positions(ClampEvent) # {}
           /\ \A j \in Positions(HardClampEvent) :
                \A k \in Positions(ClampEvent) : j < k

\* An apply() softened and hardened in the same call.
C3_Witness ==
    /\ lastOp = "apply"
    /\ status = "ok"
    /\ Positions(SoftClampEvent) # {}
    /\ Positions(HardClampEvent) # {}

\* C4: an apply() that returns having dispatched lineclamp.softclamp or
\* lineclamp.hardclamp has dispatched exactly one lineclamp.clamp, after
\* them; one that dispatched neither has dispatched no lineclamp.clamp.
C4_OneGenericEvent ==
    (lastOp = "apply" /\ status = "ok") =>
        LET specific == Positions(SoftClampEvent) \cup Positions(HardClampEvent)
        IN IF specific # {}
           THEN /\ Cardinality(Positions(ClampEvent)) = 1
                /\ \A i \in specific : \A k \in Positions(ClampEvent) : i < k
           ELSE Positions(ClampEvent) = {}

\* C5: when the full original text, shown by the element, already fits the
\* configured constraint, apply() dispatches no event and leaves the text
\* the reader sees and the font size as they were.
C5_NoOpWhenFits ==
    (/\ lastOp = "apply"
     /\ maxLines # Undefined \/ maxHeight # Undefined
     /\ Visible(pre.textContent) = Visible(OriginalText)
     /\ ~shouldClamp(pre.textContent, pre.fontSize).value)
        => /\ events = <<>>
           /\ status = "ok"
           /\ Visible(textContent) = Visible(pre.textContent)
           /\ ComputedFontSize(fontSize) = ComputedFontSize(pre.fontSize)

\* The element was rendered with nonzero height when the last call began.
RenderedBefore ==
    /\ ~pre.hidden
    /\ RenderedLines(pre.textContent, ComputedFontSize(pre.fontSize)) > 0

\* The last two calls were apply(), nothing happened between them, and the
\* first one returned with the text fitting.
AppliedTwice ==
    /\ lastOp = "apply"
    /\ pre.applied
    /\ maxLines # Undefined \/ maxHeight # Undefined
    /\ ~shouldClamp(pre.textContent, pre.fontSize).value

\* sub is a subsequence of seq.
RECURSIVE IsSubsequence(_, _)
IsSubsequence(sub, seq) ==
    IF Len(sub) = 0 THEN TRUE
    ELSE IF Len(seq) = 0 THEN FALSE
    ELSE IF Head(sub) = Head(seq) THEN IsSubsequence(Tail(sub), Tail(seq))
    ELSE IsSubsequence(sub, Tail(seq))

\* C6 as stated: a second apply() right after one that achieved fit changes
\* neither the text nor the font size and dispatches no event.
C6_SecondApplySilent ==
    AppliedTwice
        => /\ Visible(textContent) = Visible(pre.textContent)
           /\ fontSize = pre.fontSize
           /\ events = <<>>

\* C6, amended: a second apply() right after one that achieved fit changes
\* neither the text nor the font size, and dispatches only events the
\* first one dispatched, in the same order.
C6_SecondApplyIdempotent ==
    AppliedTwice
        => /\ status = "ok"
           /\ textContent = pre.textContent
           /\ fontSize = pre.fontSize
           /\ IsSubsequence(events, pre.events)

\* A second apply() in a row on a text the first one had to shrink and cut.
C6_Witness ==
    /\ AppliedTwice
    /\ RenderedBefore
    /\ pre.events = <<SoftClampEvent, HardClampEvent, ClampEvent>>
    /\ events = <<HardClampEvent, ClampEvent>>

\* C7: shouldClamp() with neither maxLines nor maxHeight set raises the
\* configuration error, and so does apply() on an element of nonzero height,
\* which then dispatches nothing.
C7_ConfigurationError ==
    (maxLines = Undefined /\ maxHeight = Undefined)
        => /\ lastOp = "shouldClamp" => status = "error"
           /\ (lastOp = "apply" /\ RenderedBefore)
                => (status = "error" /\ events = <<>>)

\* C8: with maxHeight and maxLines both set, shouldClamp() returns exactly
\* textHeight > maxHeight.
C8_HeightPrecedence ==
    (lastOp = "shouldClamp" /\ maxHeight # Undefined /\ maxLines # Undefined)
        => /\ status = "ok"
           /\ result = (calculateTextMetrics(textContent, fontSize).textHeight > maxHeight)

\* C9: apply() on an element of zero rendered height raises nothing,
\* dispatches nothing and leaves the text, the font size, the watching
\* flag and both listeners as they were, whatever the configuration.
C9_ZeroHeightNoOp ==
    (lastOp = "apply" /\ ~RenderedBefore)
        => /\ status = "ok"
           /\ events = <<>>
           /\ textContent = pre.textContent
           /\ fontSize = pre.fontSize
           /\ watching = pre.watching
           /\ resizeListener = pre.resizeListener
           /\ observing = pre.observing

\* apply() was called while watching a hidden element that has words, with
\* no bound configured.
C9_Witness ==
    /\ lastOp = "apply"
    /\ ~RenderedBefore
    /\ pre.watching
    /\ Len(originalWords) >= 2
    /\ maxLines = Undefined
    /\ maxHeight = Undefined

\* C10: the resize listener and the mutation observer are active exactly
\* when the watching flag is set; watch() while watching and unwatch() while
\* not watching change nothing.
C10_SubscriptionInvariant ==
    /\ resizeListener = watching
    /\ observing = watching
    /\ (lastOp = "watch" /\ pre.watching)
         => (watching /\ textContent = pre.textContent /\ fontSize = pre.fontSize)
    /\ (lastOp = "unwatch" /\ ~pre.watching)
         => (~watching /\ textContent = pre.textContent /\ fontSize = pre.fontSize)
    /\ lastOp = "watch" => watching
    /\ lastOp = "unwatch" => ~watching

\* apply() has returned to a watching controller after clamping.
C10_Witness ==
    /\ lastOp = "apply"
    /\ RenderedBefore
    /\ pre.watching
    /\ watching
    /\ events # <<>>

(* ---------------------------------------------------------------------- *)
(* The revision with clampSoon(): src/src/LineClamp.js, third class        *)
(*                                                                         *)
(* This revision has watch(doInitialClamp), defers the reclamping to the   *)
(* next animation frame, clamps by linear search and dispatches no event.  *)
(* this.originalWords holds the words without their blanks.                *)
(* ---------------------------------------------------------------------- *)

\* Most animation-frame callbacks the model lets accumulate.
MaxPending == 2

RECURSIVE Split(_, _, _)
\* element.textContent.split(/\s+/): a run of blanks separates two strings,
\* the empty ones at either end included.
Split(s, cur, acc) ==
    IF Len(s) = 0 THEN Append(acc, cur)
    ELSE IF Head(s) # Space THEN Split(Tail(s), Append(cur, Head(s)), acc)
    ELSE IF Len(s) > 1 /\ s[2] = Space THEN Split(Tail(s), cur, acc)
    ELSE Split(Tail(s), <<>>, Append(acc, cur))

\* this.basisLineHeight: the height of one line when the controller was
\* constructed, the element having no inline font size yet.
basisLineHeight == CssFontSize

\* get currentLineHeight(): element.clientHeight around one &nbsp;.
currentLineHeight(inline) == OffsetHeight(1, inline)

\* shouldClamp() of this revision.  The computed height of an element that
\* is not rendered is "auto": parseInt gives NaN and the comparison is false.
shouldClampSoon(text, inline) ==
    LET innerHeight ==
          OffsetHeight(RenderedLines(text, ComputedFontSize(inline)), inline)
    IN IF hidden THEN FALSE
       ELSE IF strict THEN innerHeight > maxLines * currentLineHeight(inline)
       ELSE innerHeight > maxLines * basisLineHeight

RECURSIVE hardClampSoonLoop(_, _, _)
\* The for loop of hardClamp(): i words are in the text, the next one is
\* added, and the first addition that overflows ends the loop.
hardClampSoonLoop(i, text, inline) ==
    IF i >= Len(originalWords) THEN text
    ELSE LET longer == text \o <<Space>> \o originalWords[i + 1]
         IN IF shouldClampSoon(longer, inline)
            THEN Join(Slice(originalWords, i), <<Space>>) \o <<Space>> \o ellipsis
            ELSE hardClampSoonLoop(i + 1, longer, inline)

\* hardClamp() of this revision: the text it leaves.
hardClampSoon(inline) == hardClampSoonLoop(1, originalWords[1], inline)

RECURSIVE softClampSoonLoop(_, _, _)
\* The for loop of softClamp(): the size i is set when the text overflows at
\* the size set before it; hardClamp() follows the last size.
softClampSoonLoop(i, text, inline) ==
    IF i < minFontSize
    THEN [text |-> hardClampSoon(inline), inline |-> inline]
    ELSE IF shouldClampSoon(text, inline)
    THEN softClampSoonLoop(i - 1, text, i)
    ELSE [text |-> text, inline |-> inline]

\* softClamp() of this revision, on an element holding text.
softClampSoon(text) == softClampSoonLoop(maxFontSize, text, NoInlineSize)

\* The element and the controller's subscription as clamp() and watch()
\* of this revision see them; passes counts the calls of clamp().
SoonElement ==
    [text |-> textContent, inline |-> fontSize, sub |-> CurrentSubscription,
     records |-> pendingRecords, passes |-> 0]

\* window.addEventListener('resize', ...); this.observer.observe(...);
\* this._watching = true
subscribe(el) == [el EXCEPT !.sub = Subscription(TRUE, TRUE, TRUE)]

RECURSIVE watchSoon(_, _)
\* clamp(): nothing on an element without height; otherwise the
\* subscription is dropped, the text is clamped, and watch(false) resumes
\* the subscription that was there.
clamp(el) ==
    LET entered == [el EXCEPT !.passes = @ + 1]
        offsetHeight ==
          OffsetHeight(RenderedLines(el.text, ComputedFontSize(el.inline)), el.inline)
        previouslyWatching == el.sub.watching
        suspended == [entered EXCEPT !.sub = unwatch(@), !.records = FALSE]
        out == IF useSoftClamp THEN softClampSoon(el.text)
               ELSE [text |-> hardClampSoon(el.inline), inline |-> el.inline]
        clamped == [suspended EXCEPT !.text = out.text, !.inline = out.inline]
    IN IF offsetHeight = 0 THEN entered
       ELSE IF previouslyWatching THEN watchSoon(clamped, FALSE)
       ELSE clamped

\* watch(doInitialClamp) of this revision.
watchSoon(el, doInitialClamp) ==
    IF el.sub.watching THEN el
    ELSE subscribe(IF doInitialClamp THEN clamp(el) ELSE el)

\* clampSoon(): requestAnimationFrame(() => this.clamp())
clampSoon(frames) == frames + 1

RECURSIVE runCallbacks(_, _)
\* An animation frame runs every callback scheduled before it.
runCallbacks(n, el) == IF n = 0 THEN el ELSE runCallbacks(n - 1, clamp(el))

\* The state a step of this revision leaves, el being what its calls of
\* clamp() and watch() left.
SoonBecomes(el) ==
    /\ textContent' = el.text
    /\ fontSize' = el.inline
    /\ watching' = el.sub.watching
    /\ resizeListener' = el.sub.resizeListener
    /\ observing' = el.sub.observing
    /\ pendingRecords' = el.records
    /\ passes' = el.passes
    /\ owed' = (owed /\ el.passes = 0)
    /\ events' = <<>>
    /\ calls' = {}
    /\ observedWrite' = FALSE
    /\ status' = "ok"
    /\ result' = FALSE
    /\ pre' = Snapshot

\* clamp.watch(doInitialClamp)
SoonWatch ==
    \E doInitialClamp \in BOOLEAN :
       /\ lastOp' = IF doInitialClamp THEN "watch(true)" ELSE "watch"
       /\ SoonBecomes(watchSoon(SoonElement, doInitialClamp))
       /\ UNCHANGED <<config, args, hidden, pendingFrames>>

\* clamp.clamp()
SoonClamp ==
    /\ lastOp' = "clamp"
    /\ SoonBecomes(clamp(SoonElement))
    /\ UNCHANGED <<config, args, hidden, pendingFrames>>

\* clamp.shouldClamp(): the strict comparison measures a line through
\* _whileMeasuring(), which writes to the element and restores it.
SoonShouldClamp ==
    /\ lastOp' = "shouldClamp"
    /\ pre' = Snapshot
    /\ result' = shouldClampSoon(textContent, fontSize)
    /\ observedWrite' = (strict /\ observing)
    /\ pendingRecords' = (pendingRecords \/ (strict /\ observing))
    /\ events' = <<>>
    /\ calls' = {}
    /\ passes' = 0
    /\ status' = "ok"
    /\ UNCHANGED <<config, args, textContent, fontSize, hidden, watching,
                   resizeListener, observing, pendingFrames, owed>>

(* ---------------------------------------------------------------------- *)
(* The page and the browser around the controller                          *)
(* ---------------------------------------------------------------------- *)

\* Longest text the page writes into the element.
MaxExternalLen == 1

\* The texts the page writes into the element.
ExternalTexts == {s \in Texts : Len(s) <= MaxExternalLen}

\* Code of the page, not the controller, replaces the element's content.
\* An observer that observes the element queues a record of it.
Mutate ==
    /\ Running
    /\ \E text \in ExternalTexts : textContent' = text
    /\ pendingRecords' = (pendingRecords \/ observing)
    /\ owed' = (owed \/ watching)
    /\ lastOp' = "mutate"
    /\ pre' = Snapshot
    /\ NoClamping
    /\ status' = "ok"
    /\ result' = FALSE
    /\ UNCHANGED <<config, args, fontSize, hidden, watching, resizeListener,
                   observing, pendingFrames>>

\* The browser delivers the queued records to the observer's callback,
\* this.updateHandler: clampSoon().
SoonDeliver ==
    /\ pendingRecords
    /\ pendingFrames < MaxPending
    /\ pendingRecords' = FALSE
    /\ pendingFrames' = clampSoon(pendingFrames)
    /\ lastOp' = "deliver"
    /\ pre' = Snapshot
    /\ NoClamping
    /\ status' = "ok"
    /\ result' = FALSE
    /\ UNCHANGED <<config, args, textContent, fontSize, hidden, watching,
                   resizeListener, observing, owed>>

\* The window is resized: a registered this.updateHandler runs clampSoon().
SoonResize ==
    /\ pendingFrames < MaxPending
    /\ pendingFrames' = IF resizeListener THEN clampSoon(pendingFrames)
                        ELSE pendingFrames
    /\ owed' = (owed \/ watching)
    /\ lastOp' = "resize"
    /\ pre' = Snapshot
    /\ NoClamping
    /\ status' = "ok"
    /\ result' = FALSE
    /\ UNCHANGED <<config, args, textContent, fontSize, hidden, watching,
                   resizeListener, observing, pendingRecords>>

\* The next animation frame: the scheduled callbacks run, each one clamp().
SoonFrame ==
    /\ pendingFrames > 0
    /\ pendingFrames' = 0
    /\ lastOp' = "frame"
    /\ SoonBecomes(runCallbacks(pendingFrames, SoonElement))
    /\ UNCHANGED <<config, args, hidden>>

\* new LineClamp(element, options) of the revision with clampSoon(), the
\* element being rendered: maxFontSize defaults to the computed font size.
InitSoon ==
    /\ textContent \in Texts
    /\ originalWords = Split(textContent, <<>>, <<>>)
    /\ maxLines \in 1..MaxLinesOpt
    /\ maxHeight = Undefined
    /\ useSoftClamp \in BOOLEAN
    /\ hardClampAsFallback = TRUE
    /\ strict \in BOOLEAN
    /\ minFontSize \in FontSizes
    /\ maxFontSize = CssFontSize
    /\ fontSize = NoInlineSize
    /\ hidden = FALSE
    /\ watching = FALSE
    /\ resizeListener = FALSE
    /\ observing = FALSE
    /\ lastOp = "new"
    /\ status = "ok"
    /\ events = <<>>
    /\ result = FALSE
    /\ pre = Snapshot
    /\ calls = {}
    /\ observedWrite = FALSE
    /\ passes = 0
    /\ pendingRecords = FALSE
    /\ pendingFrames = 0
    /\ owed = FALSE
    /\ args = <<>>

NextSoon ==
    \/ SoonWatch
    \/ Unwatch
    \/ SoonClamp
    \/ SoonShouldClamp
    \/ SetHidden
    \/ Mutate
    \/ SoonDeliver
    \/ SoonResize
    \/ SoonFrame

SpecSoon == InitSoon /\ [][NextSoon]_vars

(* ---------------------------------------------------------------------- *)
(* Properties of the watch subscription and of the reclamping              *)
(* ---------------------------------------------------------------------- *)

\* C11: watch(true) runs one clamp pass and leaves the subscription active,
\* whether or not the controller was watching when it was called;
\* watch() / watch(false) runs no clamp pass, leaves the element as it was
\* and leaves the subscription active.
C11_WatchTrueClampsFirst ==
    /\ lastOp = "watch(true)" => (passes = 1 /\ watching)
    /\ lastOp = "watch"
         => /\ passes = 0
            /\ watching
            /\ textContent = pre.textContent
            /\ fontSize = pre.fontSize

(* ---------------------------------------------------------------------- *)
(* The latest revision under the page and the browser                      *)
(* ---------------------------------------------------------------------- *)

\* The browser delivers the queued records to the observer's callback,
\* this.updateHandler: apply().
Deliver ==
    /\ pendingRecords
    /\ ApplyPass("deliver", FALSE)

\* The window is resized: a registered this.updateHandler runs apply().
Resize ==
    IF resizeListener THEN ApplyPass("resize", pendingRecords)
    ELSE /\ Running
         /\ lastOp' = "resize"
         /\ pre' = Snapshot
         /\ owed' = (owed \/ watching)
         /\ NoClamping
         /\ status' = "ok"
         /\ result' = FALSE
         /\ UNCHANGED <<config, args, textContent, fontSize, hidden, watching,
                        resizeListener, observing, queues>>

\* A clamping method called by the page itself, not through apply(): the
\* subscription stays as it is, and the observer records what is written
\* while it observes.
DirectCall(op, out) ==
    /\ Running
    /\ lastOp' = op
    /\ pre' = Snapshot
    /\ textContent' = out.text
    /\ fontSize' = out.inline
    /\ events' = out.events
    /\ status' = out.status
    /\ calls' = out.calls
    /\ observedWrite' = (out.wrote /\ observing)
    /\ pendingRecords' = (pendingRecords \/ (out.wrote /\ observing))
    /\ passes' = 0
    /\ result' = FALSE
    /\ UNCHANGED <<config, args, hidden, watching, resizeListener, observing,
                   pendingFrames, owed>>

\* clamp.softClamp()
SoftClamp == DirectCall("softClamp", softClamp(textContent, fontSize))

\* clamp.hardClamp(): skipCheck defaults to true.
HardClamp == DirectCall("hardClamp", hardClamp(TRUE, textContent, fontSize, <<>>))

\* new LineClamp(element, options) with the default font range and no
\* maxHeight, the element being rendered.
InitReactive ==
    /\ Init
    /\ maxHeight = Undefined
    /\ hardClampAsFallback
    /\ minFontSize = 1
    /\ maxFontSize = CssFontSize

NextReactive ==
    \/ Apply
    \/ Watch
    \/ Unwatch
    \/ SoftClamp
    \/ HardClamp
    \/ SetHidden
    \/ Mutate
    \/ Deliver
    \/ Resize

\* The browser runs the callback of an observer that holds records.
SpecReactive == InitReactive /\ [][NextReactive]_vars /\ WF_vars(Deliver)

C13_NoPassAfterUnwatch ==
    (lastOp \in {"deliver", "resize", "frame"} /\ ~pre.watching) => passes = 0

\* C14: apply() writes to the element only while the observer is
\* disconnected, and an apply() that returns leaves the subscription as it
\* found it: active exactly when it was active on entry.
C14_ApplySuspendsAndRestores ==
    lastOp = "apply"
      => /\ ~observedWrite
         /\ status = "ok"
              => /\ watching = pre.watching
                 /\ resizeListener = pre.resizeListener
                 /\ observing = pre.observing

\* apply() has rewritten the text of a watched element and returned.
C14_Witness ==
    /\ lastOp = "apply"
    /\ status = "ok"
    /\ pre.watching
    /\ watching
    /\ textContent # pre.textContent

\* C15: no public operation that changes the element (apply(), softClamp(),
\* hardClamp()) writes to it while the controller's observer observes it.
C15_SoleWriterGuard ==
    lastOp \in {"apply", "softClamp", "hardClamp"} => ~observedWrite

\* C16: a delivery of mutation records, or a resize, on a watching
\* controller runs exactly one pass of apply(); when the pass is over none
\* of its own writes has been recorded by the observer, and nothing is left
\* pending that would run a further pass, but for records the page caused
\* before a resize whose pass found an element without height.
C16_NoFeedbackLoop ==
    [][(/\ lastOp' \in {"deliver", "resize"}
        /\ watching
        /\ status' # "hang")
         => /\ passes' = 1
            /\ ~observedWrite'
            /\ pendingRecords' => (pendingRecords /\ lastOp' = "resize")
            /\ pendingFrames' = 0]_vars

\* The observer's callback has run apply(), which rewrote the text the page
\* had put into the element, and the controller watches again.
C16_Witness ==
    /\ lastOp = "deliver"
    /\ pre.watching
    /\ status = "ok"
    /\ watching
    /\ textContent # pre.textContent

\* C17: an animation frame runs at most one clamp pass, however many resize
\* and mutation notifications arrived since the frame before it.
C17_OnePassPerFrame == lastOp = "frame" => passes <= 1

(* ---------------------------------------------------------------------- *)
(* Properties of the soft clamp fallback and of the truncation             *)
(* ---------------------------------------------------------------------- *)

\* C18: with minFontSize = maxFontSize, useSoftClamp and hardClampAsFallback,
\* and an original text that fits neither at the element's own font size
\* nor at minFontSize, an apply() that returns dispatches no
\* lineclamp.softclamp, dispatches lineclamp.hardclamp, and dispatches
\* lineclamp.clamp exactly once.
C18_DegenerateFontRange ==
    (/\ AppliedToRendered
     /\ useSoftClamp
     /\ hardClampAsFallback
     /\ minFontSize = maxFontSize
     /\ shouldClamp(OriginalText, NoInlineSize).value
     /\ shouldClamp(OriginalText, minFontSize).value)
        => /\ Positions(SoftClampEvent) = {}
           /\ Positions(HardClampEvent) # {}
           /\ Cardinality(Positions(ClampEvent)) = 1

\* The original text overflows at every font size of the configured range.
NoSizeFits ==
    \A size \in minFontSize..maxFontSize : shouldClamp(OriginalText, size).value

\* C19: with useSoftClamp, an apply() on a rendered element whose text fits
\* at no font size of the range enters hardClamp() when hardClampAsFallback
\* is true; when hardClampAsFallback is false no apply() ever enters
\* hardClamp(), dispatches lineclamp.hardclamp or truncates the text: the
\* element keeps its original text.
C19_FallbackSwitch ==
    /\ (/\ lastOp = "apply"
        /\ RenderedBefore
        /\ useSoftClamp
        /\ hardClampAsFallback
        /\ NoSizeFits)
         => "hardClamp" \in calls
    /\ (useSoftClamp /\ ~hardClampAsFallback)
         => /\ "hardClamp" \notin calls
            /\ Positions(HardClampEvent) = {}
            /\ textContent = OriginalText

\* No font size of the range fits and apply() has fallen back to
\* hardClamp(), which truncated the text.
C19_Witness ==
    /\ lastOp = "apply"
    /\ useSoftClamp
    /\ hardClampAsFallback
    /\ minFontSize < maxFontSize
    /\ NoSizeFits
    /\ "hardClamp" \in calls
    /\ Positions(HardClampEvent) # {}
    /\ textContent # OriginalText

\* p is what is left of s after its last characters are cut off.
IsPrefix(p, s) == Len(p) <= Len(s) /\ SubSeq(s, 1, Len(p)) = p

\* The element's text without its last Len(ellipsis) characters.
KeptText == SubSeq(textContent, 1, Len(textContent) - Len(ellipsis))

\* The element's text ends with the ellipsis string.
EndsWithEllipsis ==
    /\ Len(textContent) >= Len(ellipsis)
    /\ SubSeq(textContent, Len(textContent) - Len(ellipsis) + 1,
              Len(textContent)) = ellipsis

\* The words of k are the leading words of o, the last one possibly cut
\* short, and at least one character of o is missing from k.
LeadingWords(k, o) ==
    /\ Len(k) <= Len(o)
    /\ \A i \in 1..Len(k) :
         IF i < Len(k) THEN k[i] = o[i] ELSE k[i] <= o[i]
    /\ \/ Len(k) < Len(o)
       \/ Len(k) > 0 /\ k[Len(k)] < o[Len(k)]

\* The last call was an apply() that returned and dispatched
\* lineclamp.hardclamp.
HardClamped == lastOp = "apply" /\ status = "ok" /\ Positions(HardClampEvent) # {}

\* C20, as stated: after an apply() that dispatched lineclamp.hardclamp the
\* element's text is, character for character, a proper prefix of the
\* original text followed by the ellipsis string.
C20_TruncationShapeLiteral ==
    HardClamped =>
        /\ EndsWithEllipsis
        /\ IsPrefix(KeptText, OriginalText)
        /\ Len(KeptText) < Len(OriginalText)

\* C20: after an apply() that dispatched lineclamp.hardclamp the element's
\* text ends with the ellipsis string and what precedes it reads, white
\* space collapsed, as whole leading words of the original text and then
\* leading characters of the next word, short of the original by at least
\* one character; and an apply() that returned on a rendered element
\* dispatched lineclamp.hardclamp if and only if it left the element with
\* a text that reads otherwise than the original.
C20_TruncationShape ==
    /\ HardClamped =>
         /\ EndsWithEllipsis
         /\ LeadingWords(WordLengths(KeptText, 0, <<>>),
                         WordLengths(OriginalText, 0, <<>>))
    /\ AppliedToRendered =>
         (Positions(HardClampEvent) # {}
            <=> Visible(textContent) # Visible(OriginalText))

\* apply() has cut a text of several words inside a word and appended the
\* ellipsis.
C20_Witness ==
    /\ HardClamped
    /\ EndsWithEllipsis
    /\ Len(WordLengths(KeptText, 0, <<>>)) >= 2
    /\ Len(KeptText) < Len(OriginalText)
    /\ Visible(textContent) # Visible(OriginalText)

(* ---------------------------------------------------------------------- *)
(* calculateTextMetrics() on its own                                       *)
(* ---------------------------------------------------------------------- *)

\* Largest number of lines the measured text is rendered on.
MaxHostLines == 4

\* Largest height of the empty element (padding and border), in pixels.
MaxEmptyHeight == 2

\* Largest height a line adds to the element, in pixels.
MaxLineHeight == 3

\* The hosts calculateTextMetrics() is studied on: the text takes `lines`
\* lines, the empty element is emptyHeight high, the first line adds
\* firstLineHeight (nothing for an inline element) and every further line
\* additionalLineHeight.
Hosts ==
    [lines : 1..MaxHostLines,
     emptyHeight : 0..MaxEmptyHeight,
     firstLineHeight : 0..MaxLineHeight,
     additionalLineHeight : 1..MaxLineHeight]

\* clone.offsetHeight while the clone holds the given number of lines.
CloneOffsetHeight(lines) ==
    IF lines = 0 THEN args.emptyHeight
    ELSE args.emptyHeight + args.firstLineHeight
           + (lines - 1) * args.additionalLineHeight

\* calculateTextMetrics() on the host args: the clone takes the element's
\* place, is measured as cloned, emptied, holding "\xa0" and holding
\* "\xa0<br>\xa0", and gives its place back; the element is never written.
measureOnClone(text, inline) ==
    [metrics |-> textMetrics(CloneOffsetHeight(args.lines),
                             CloneOffsetHeight(0),
                             CloneOffsetHeight(1),
                             CloneOffsetHeight(2)),
     text |-> text,
     inline |-> inline]

\* An instance none of whose methods has been called yet.
Constructed ==
    /\ originalWords = Words(textContent)
    /\ hidden = FALSE
    /\ watching = FALSE
    /\ resizeListener = FALSE
    /\ observing = FALSE
    /\ lastOp = "new"
    /\ status = "ok"
    /\ events = <<>>
    /\ result = FALSE
    /\ pre = Snapshot
    /\ strict = FALSE
    /\ calls = {}
    /\ observedWrite = FALSE
    /\ passes = 0
    /\ pendingRecords = FALSE
    /\ pendingFrames = 0
    /\ owed = FALSE

\* new LineClamp(element, {maxLines}) on an element of one of the hosts.
InitMetrics ==
    /\ args \in Hosts
    /\ textContent \in {s \in Texts : Len(s) = MaxLen}
    /\ fontSize \in {NoInlineSize, CssFontSize}
    /\ maxLines = 1
    /\ maxHeight = Undefined
    /\ useSoftClamp = FALSE
    /\ hardClampAsFallback = TRUE
    /\ minFontSize = 1
    /\ maxFontSize = CssFontSize
    /\ Constructed

\* clamp.calculateTextMetrics()
CalculateTextMetrics ==
    /\ lastOp = "new"
    /\ lastOp' = "calculateTextMetrics"
    /\ pre' = Snapshot
    /\ result' = measureOnClone(textContent, fontSize).metrics
    /\ textContent' = measureOnClone(textContent, fontSize).text
    /\ fontSize' = measureOnClone(textContent, fontSize).inline
    /\ status' = "ok"
    /\ events' = <<>>
    /\ calls' = {}
    /\ UNCHANGED <<config, args, hidden, watching, resizeListener, observing,
                   observedWrite, passes, queues, owed>>

SpecMetrics == InitMetrics /\ [][CalculateTextMetrics]_vars

\* C21: on a host whose text takes k >= 1 lines, whose first line adds
\* f >= 0 to the empty element and whose further lines add a > 0 each,
\* calculateTextMetrics() returns lineCount = k, firstLineHeight = f,
\* additionalLineHeight = a and textHeight = the height with the text less
\* the height without it, and the element's text and inline font size are
\* what they were before the call.
C21_LineCounting ==
    lastOp = "calculateTextMetrics" =>
        /\ ~result.lineCountIsNaN
        /\ result.lineCount = args.lines
        /\ result.firstLineHeight = args.firstLineHeight
        /\ result.additionalLineHeight = args.additionalLineHeight
        /\ result.textHeight = CloneOffsetHeight(args.lines) - CloneOffsetHeight(0)
        /\ textContent = pre.textContent
        /\ fontSize = pre.fontSize

\* An inline element (the first line adds no height) whose text takes three
\* lines has been measured.
C21_Witness ==
    /\ lastOp = "calculateTextMetrics"
    /\ args.firstLineHeight = 0
    /\ args.lines = 3
    /\ result.lineCount = 3

(* ---------------------------------------------------------------------- *)
(* findBoundary() on its own                                               *)
(* ---------------------------------------------------------------------- *)

\* Largest value of the ranges searched.
MaxBound == 5

\* The searches studied: a range and what the test callback returns on each
\* value.
Searches ==
    [min : 0..MaxBound, max : 0..MaxBound, test : [0..MaxBound -> BOOLEAN]]

\* The test callback never throws here.
Returns(test) == [val \in DOMAIN test |-> [threw |-> FALSE, value |-> test[val]]]

\* false up to some threshold of min..max, true beyond it.
Monotonic(min, max, test) ==
    \A v, w \in min..max : (v <= w /\ test[v]) => test[w]

InitSearch ==
    /\ args \in Searches
    /\ textContent = <<>>
    /\ fontSize = NoInlineSize
    /\ maxLines = 1
    /\ maxHeight = Undefined
    /\ useSoftClamp = FALSE
    /\ hardClampAsFallback = TRUE
    /\ minFontSize = 1
    /\ maxFontSize = CssFontSize
    /\ Constructed

\* findBoundary(args.min, args.max, args.test, done)
FindBoundary ==
    /\ lastOp = "new"
    /\ lastOp' = "findBoundary"
    /\ result' = findBoundary(args.min, args.max, Returns(args.test))
    /\ UNCHANGED <<config, args, textContent, fontSize, hidden, watching,
                   resizeListener, observing, status, events, pre, calls,
                   observedWrite, passes, queues, owed>>

SpecSearch == InitSearch /\ [][FindBoundary]_vars

\* C22: for every range with min < max and every monotonic predicate,
\* findBoundary ends on a bracket of width 1 and has invoked the completion
\* callback, with max - min = 1.
C22_CompletionCallback ==
    (/\ lastOp = "findBoundary"
     /\ args.min < args.max
     /\ Monotonic(args.min, args.max, args.test))
        => /\ result.done
           /\ result.max - result.min = 1

\* The values of min..(max - 1) at which the predicate is false.
FalseBelowMax == {v \in args.min..(args.max - 1) : ~args.test[v]}

\* C23: for min < max and a monotonic predicate that is true at max, the
\* completion callback is invoked with a bracket of width 1 such that the
\* predicate is true at the failing bound; the passing bound is the largest
\* value of [min, max) at which the predicate is false, or the original min
\* when there is none; and the candidate is one of the two bounds and is
\* the value tested last.
C23_BoundaryCorrectness ==
    (/\ lastOp = "findBoundary"
     /\ args.min < args.max
     /\ Monotonic(args.min, args.max, args.test)
     /\ args.test[args.max])
        => /\ result.done
           /\ result.max - result.min = 1
           /\ args.test[result.max]
           /\ IF FalseBelowMax = {}
              THEN result.min = args.min
              ELSE /\ result.min \in FalseBelowMax
                   /\ \A v \in FalseBelowMax : v <= result.min
           /\ result.val \in {result.min, result.max}
           /\ result.last = args.test[result.val]
           /\ result.tests >= 1

\* A search over a range of several values whose boundary lies strictly
\* inside the range has ended.
C23_Witness ==
    /\ lastOp = "findBoundary"
    /\ args.max - args.min >= 3
    /\ Monotonic(args.min, args.max, args.test)
    /\ args.test[args.max]
    /\ result.done
    /\ args.min < result.min
    /\ result.max < args.max
    /\ result.tests >= 3

(* ---------------------------------------------------------------------- *)
(* Properties of the searches inside apply()                               *)
(* ---------------------------------------------------------------------- *)

\* The font sizes of the configured range at which the original text fits.
FittingSizes ==
    {size \in minFontSize..maxFontSize : ~shouldClamp(OriginalText, size).value}

\* shouldClamp() on the original text is monotonic over the font range.
FitMonotonicInSize ==
    \A v, w \in minFontSize..maxFontSize :
        (v <= w /\ shouldClamp(OriginalText, v).value)
            => shouldClamp(OriginalText, w).value

\* C24: with a fit predicate monotonic in the font size and at least one
\* size of [minFontSize, maxFontSize] at which the text fits, an apply()
\* with useSoftClamp leaves the element at the largest size of the range
\* that fits and does not enter hardClamp().
C24_LargestFittingSize ==
    (/\ AppliedToRendered
     /\ useSoftClamp
     /\ ~shouldClamp(OriginalText, minFontSize).threw
     /\ FitMonotonicInSize
     /\ FittingSizes # {})
        => /\ fontSize \in FittingSizes
           /\ \A size \in FittingSizes : size <= fontSize
           /\ "hardClamp" \notin calls

\* The text hardClamp() trims: all the original words joined by a blank.
JoinedText == FirstWords(Len(originalWords))

\* The positions of JoinedText beyond the kept text that hold a non-blank
\* character.
RestorablePositions ==
    {i \in (Len(KeptText) + 1)..Len(JoinedText) : JoinedText[i] # Space}

\* The kept text with the characters up to the next non-blank one restored,
\* and the ellipsis.
OneMoreCharacter ==
    LET next == CHOOSE i \in RestorablePositions :
                    \A j \in RestorablePositions : i <= j
    IN Slice(JoinedText, next) \o ellipsis

\* Longest text of the elements the truncation is studied on.
MaxTrimLen == 7

\* Texts long enough for a word boundary to fall short of the line's end.
TrimTexts == {s \in UNION {[1..n -> Chars] : n \in 0..MaxTrimLen} : Normalized(s)}

\* new LineClamp(element, {maxLines}) on an element to which the page has
\* given an inline font size.
InitTrim ==
    /\ args = <<>>
    /\ textContent \in TrimTexts
    /\ fontSize \in FontSizes
    /\ maxLines \in 1..MaxLinesOpt
    /\ maxHeight = Undefined
    /\ useSoftClamp = FALSE
    /\ hardClampAsFallback = TRUE
    /\ minFontSize = 1
    /\ maxFontSize = CssFontSize
    /\ Constructed

SpecTrim == InitTrim /\ [][Apply]_vars

\* C25: after an apply() that truncated by hard clamping, the kept text is
\* the longest prefix that fits with the ellipsis appended: with one more
\* character of the original restored before the ellipsis, the text would
\* not fit.
C25_LongestFittingPrefix ==
    (/\ HardClamped
     /\ IsPrefix(KeptText, JoinedText)
     /\ RestorablePositions # {})
        => shouldClamp(OneMoreCharacter, fontSize).value

\* C26: apply() terminates, whatever the original text, the configured
\* bound and the font range: it returns or throws, it never loops forever.
C26_ApplyTerminates == lastOp = "apply" => status # "hang"

\* C27: an apply() with useSoftClamp on a rendered element dispatches
\* lineclamp.softclamp if and only if the element's font size after the
\* pass differs from its font size before the pass.
C27_SoftClampEventIffChanged ==
    (/\ lastOp = "apply"
     /\ status = "ok"
     /\ RenderedBefore
     /\ useSoftClamp)
        => (Positions(SoftClampEvent) # {}
              <=> ComputedFontSize(fontSize) # ComputedFontSize(pre.fontSize))

(* ---------------------------------------------------------------------- *)
(* Properties of the snapshot and of the state after an error              *)
(* ---------------------------------------------------------------------- *)

\* The element's text reads as the snapshot text or as a truncation of it.
SnapshotOrTruncation ==
    \/ Visible(textContent) = Visible(OriginalText)
    \/ /\ EndsWithEllipsis
       /\ LeadingWords(WordLengths(KeptText, 0, <<>>),
                       WordLengths(OriginalText, 0, <<>>))

\* The last step was a pass of apply() that returned.
PassReturned ==
    lastOp \in {"apply", "deliver", "resize"} /\ passes = 1 /\ status = "ok"

\* C28, as stated: originalWords never changes, and the text left by every
\* apply() is the snapshot text or a truncation of the snapshot.
C28_SnapshotGroundTruthAlways ==
    /\ [][originalWords' = originalWords]_vars
    /\ [](PassReturned => SnapshotOrTruncation)

\* C28: originalWords never changes, and after any sequence of external
\* content mutations and passes of apply(), the text left by a pass made on
\* an element of nonzero rendered height is the snapshot text or a
\* truncation of the snapshot, never the text an earlier pass or the page
\* had left.
C28_SnapshotGroundTruth ==
    /\ [][originalWords' = originalWords]_vars
    /\ []((PassReturned /\ RenderedBefore) => SnapshotOrTruncation)

\* The page had replaced the element's content, and a pass has put a
\* truncation of the snapshot in its place.
C28_Witness ==
    /\ PassReturned
    /\ RenderedBefore
    /\ Visible(pre.textContent) # Visible(OriginalText)
    /\ pre.textContent \in ExternalTexts
    /\ EndsWithEllipsis
    /\ SnapshotOrTruncation

\* C29: when apply() raises the configuration error on a watching
\* controller, the subscription is still active afterwards and the
\* element's text and font size are what they were before the call.
C29_StateOnError ==
    (lastOp = "apply" /\ status = "error" /\ pre.watching)
        => /\ watching
           /\ resizeListener
           /\ observing
           /\ textContent = pre.textContent
           /\ fontSize = pre.fontSize

(* ---------------------------------------------------------------------- *)
(* softClamp() under an arbitrary fit predicate                            *)
(* ---------------------------------------------------------------------- *)

\* Largest font size of the ranges softClamp() is studied on.
MaxFitSize == 4

\* What shouldClamp() returns at each font size: any predicate, monotonic
\* or not (subpixel rounding, reflow flakiness).
FitPredicates == [1..MaxFitSize -> BOOLEAN]

\* new LineClamp(element, {maxLines, useSoftClamp, hardClampAsFallback,
\* minFontSize, maxFontSize}) on a host whose fit predicate is args.
InitFit ==
    /\ args \in FitPredicates
    /\ textContent = <<Letter, Space, Letter>>
    /\ fontSize = NoInlineSize
    /\ maxLines = 1
    /\ maxHeight = Undefined
    /\ useSoftClamp = TRUE
    /\ hardClampAsFallback \in BOOLEAN
    /\ minFontSize \in 1..MaxFitSize
    /\ maxFontSize \in 1..MaxFitSize
    /\ minFontSize <= maxFontSize
    /\ Constructed

\* clamp.softClamp() on that host: the search and its completion callback
\* read the predicate args.
SoftClampOnHost ==
    DirectCall("softClamp",
               Called(Wrote(softClampSearch(textContent, ComputedFontSize(fontSize),
                                            Returns(args),
                                            findBoundary(minFontSize, maxFontSize,
                                                         Returns(args)))),
                      "softClamp"))

SpecFit == InitFit /\ [][SoftClampOnHost]_vars

\* softClamp() returned after dispatching lineclamp.clamp itself, hardClamp()
\* not having been entered.
SoftClampAnnounced ==
    /\ lastOp = "softClamp"
    /\ status = "ok"
    /\ "hardClamp" \notin calls
    /\ Positions(ClampEvent) # {}

\* C30, as stated: whenever softClamp() finishes without entering
\* hardClamp() and dispatches lineclamp.clamp itself, the fit predicate is
\* false at the font size left on the element, and that size lies in
\* [minFontSize, maxFontSize].
C30_FitRecheckedAlways ==
    SoftClampAnnounced
        => /\ fontSize \in minFontSize..maxFontSize
           /\ ~args[fontSize]

\* C30: with hardClampAsFallback, whatever the fit predicate, monotonic or
\* not, whenever softClamp() finishes without entering hardClamp() and
\* dispatches lineclamp.clamp itself, the fit predicate is false at the
\* font size left on the element, and that size lies in
\* [minFontSize, maxFontSize].
C30_FitRechecked ==
    (SoftClampAnnounced /\ hardClampAsFallback)
        => /\ fontSize \in minFontSize..maxFontSize
           /\ ~args[fontSize]

\* Under a predicate that is not monotonic over the range, softClamp() has
\* settled on a size below maxFontSize and announced it.
C30_Witness ==
    /\ SoftClampAnnounced
    /\ hardClampAsFallback
    /\ ~Monotonic(minFontSize, maxFontSize, args)
    /\ fontSize # NoInlineSize
    /\ fontSize < maxFontSize
    /\ ~args[fontSize]

====
